---- MODULE Spec2Model ----
(***************************************************************************)
(* Model of code/intermediate/tutorial11-normals/src/model.rs:             *)
(* Model::load (the OBJ/MTL loader) and the DrawModel implementation for   *)
(* wgpu::RenderPass (the draw dispatcher).                                 *)
(*                                                                         *)
(* Paths are sequences of components; an absolute path starts with the     *)
(* root component "/".  Floats are stood for by distinct integers.  A      *)
(* usize is a pair of 32-bit words [hi, lo]; a u32 is a single word.       *)
(***************************************************************************)
EXTENDS Integers, Sequences, FiniteSets, TLC

VARIABLES pc, path, obj_models, obj_materials, containing_folder,
          command_buffers, materials, meshes, mi, gi, ret,
          pass, draws, drawPanic, lastCall

vars == <<pc, path, obj_models, obj_materials, containing_folder,
          command_buffers, materials, meshes, mi, gi, ret,
          pass, draws, drawPanic, lastCall>>

loadVars == <<pc, path, obj_models, obj_materials, containing_folder,
              command_buffers, materials, meshes, mi, gi, ret>>

-----------------------------------------------------------------------------
(* Bounds *)

MaxMaterials == 2

MaxMeshes == 2

MaxDraws == 2

-----------------------------------------------------------------------------
(* Option<T> *)

None == [some |-> FALSE, val |-> <<>>]

Some(v) == [some |-> TRUE, val |-> v]

NoneId == [some |-> FALSE, val |-> 0]

(* usize values as two 32-bit words, and the `as u32` cast (line 158).     *)
Usize(hi, lo) == [hi |-> hi, lo |-> lo]

AsU32(n) == n.lo

U32ToUsize(w) == [hi |-> 0, lo |-> w]

(* 0-based slice indexing a[r]; the caller checks InBounds first.          *)
At(a, r) == a[r + 1]

InBounds(a, r) == r < Len(a)

-----------------------------------------------------------------------------
(* std::path::Path *)

RootDir == "/"

IsAbsolute(p) == Len(p) > 0 /\ p[1] = RootDir

(* Path::parent: None for the empty path and for the root.                 *)
Parent(p) ==
    IF Len(p) = 0 \/ p = <<RootDir>>
    THEN None
    ELSE Some(SubSeq(p, 1, Len(p) - 1))

(* Path::join: an absolute argument replaces the base.                     *)
PathJoin(base, p) == IF IsAbsolute(p) THEN p ELSE base \o p

-----------------------------------------------------------------------------
(* What tobj::load_obj can return (line 68).                               *)

AssetPaths ==
    { <<"models", "cube.obj">>, <<"models", "missing.obj">>, <<>> }

(* Paths at which the file system holds an asset file.                     *)
ExistingAssets == { <<"models", "cube.obj">> }

NoParams == [k \in {} |-> <<>>]

BumpParam(p) == [k \in {"map_Bump"} |-> p]

MaterialRecords ==
    { [name |-> "matA", diffuse_texture |-> <<"dA.png">>,
       normal_texture |-> <<"nA.png">>, unknown_param |-> NoParams],
      [name |-> "matB", diffuse_texture |-> <<"dB.png">>,
       normal_texture |-> <<>>, unknown_param |-> BumpParam(<<"bB.png">>)],
      [name |-> "matC", diffuse_texture |-> <<"dC.png">>,
       normal_texture |-> <<>>, unknown_param |-> NoParams],
      [name |-> "matD", diffuse_texture |-> <<"dD.png">>,
       normal_texture |-> <<RootDir, "shared", "nD.png">>,
       unknown_param |-> BumpParam(<<"bD.png">>)] }

MkArray(base, len) == [i \in 1..len |-> base + i - 1]

Geometry(name, np, nt, nn, ilen) ==
    [name |-> name,
     positions |-> MkArray(100, np),
     texcoords |-> MkArray(200, nt),
     normals   |-> MkArray(300, nn),
     indices_len |-> ilen]

Geometries ==
    { Geometry("two",      7, 4, 6, Usize(0, 6)),
      Geometry("nonormal", 3, 2, 0, Usize(0, 3)),
      Geometry("shorttc",  6, 2, 6, Usize(0, 6)),
      Geometry("huge",     3, 2, 3, Usize(1, 0)) }

(* tobj sets material_id only to the index of a material it has parsed.    *)
MaterialIds(k) == {NoneId} \cup { [some |-> TRUE, val |-> j] : j \in 0..(k - 1) }

MeshRecords(k) ==
    { [name |-> g.name, positions |-> g.positions, texcoords |-> g.texcoords,
       normals |-> g.normals, indices_len |-> g.indices_len,
       material_id |-> id] : g \in Geometries, id \in MaterialIds(k) }

SeqsUpTo(S, n) == UNION { [1..m -> S] : m \in 0..n }

-----------------------------------------------------------------------------
(* Results *)

NoModel == [meshes |-> <<>>, materials |-> <<>>]

Pending == [kind |-> "Pending", error |-> "", model |-> NoModel, cmds |-> <<>>]

Ok(model, cmds) == [kind |-> "Ok", error |-> "", model |-> model, cmds |-> cmds]

Err(e) == [kind |-> "Err", error |-> e, model |-> NoModel, cmds |-> <<>>]

Panic(msg) == [kind |-> "Panic", error |-> msg, model |-> NoModel, cmds |-> <<>>]

NoCall == [op |-> "none", mesh |-> 0, material |-> 0,
           instances |-> [start |-> 0, end |-> 0],
           uniforms |-> [layout |-> "", bindings |-> <<>>]]

-----------------------------------------------------------------------------
Init ==
    /\ pc = "idle"
    /\ path = <<>>
    /\ obj_models = <<>>
    /\ obj_materials = <<>>
    /\ containing_folder = <<>>
    /\ command_buffers = <<>>
    /\ materials = <<>>
    /\ meshes = <<>>
    /\ mi = 1
    /\ gi = 1
    /\ ret = Pending
    /\ pass = <<>>
    /\ draws = 0
    /\ drawPanic = FALSE
    /\ lastCall = NoCall

Returned(r) ==
    /\ pc' = "returned"
    /\ ret' = r
    /\ command_buffers' = <<>>
    /\ materials' = <<>>
    /\ meshes' = <<>>

(* Lines 67-76: parse, take the parent directory, create the empty lists.  *)
LoadStart ==
    /\ pc = "idle"
    /\ \E p \in AssetPaths :
         /\ path' = p
         /\ \/ /\ p \in ExistingAssets
               /\ \E mats \in SeqsUpTo(MaterialRecords, MaxMaterials) :
                  \E mods \in SeqsUpTo(MeshRecords(Len(mats)), MaxMeshes) :
                     /\ obj_materials' = mats
                     /\ obj_models' = mods
                     /\ IF Parent(p).some
                        THEN /\ containing_folder' = Parent(p).val
                             /\ pc' = "loading"
                             /\ UNCHANGED <<ret, command_buffers, materials, meshes>>
                        ELSE /\ containing_folder' = <<>>
                             /\ Returned(Panic("unwrap on None"))
            \/ /\ UNCHANGED <<obj_materials, obj_models, containing_folder>>
               /\ Returned(Err("ParseError"))
    /\ UNCHANGED <<mi, gi, pass, draws, drawPanic, lastCall>>

-----------------------------------------------------------------------------
(* texture::Texture::load: on success a texture and its upload command.    *)
TextureLoad(p, ok) ==
    [ok |-> ok, texture |-> [source |-> p], cmds |-> [upload |-> p]]

(* Variant of NormalPath that looks up "map_Bump" first.                   *)
NormalPath_bump_first(mat) ==
    IF "map_Bump" \in DOMAIN mat.unknown_param
    THEN Some(mat.unknown_param["map_Bump"])
    ELSE IF mat.normal_texture = <<>> THEN None ELSE Some(mat.normal_texture)

(* Lines 82-89: the dedicated field, else the "map_Bump" entry; indexing   *)
(* the HashMap with an absent key panics (None here).                      *)
NormalPath(mat) ==
    IF mat.normal_texture = <<>>
    THEN IF "map_Bump" \in DOMAIN mat.unknown_param
         THEN Some(mat.unknown_param["map_Bump"])
         ELSE None
    ELSE Some(mat.normal_texture)

(* Lines 93-114: the four bindings of a material's bind group.             *)
CreateBindGroup(diffuse_texture, normal_texture) ==
    [layout |-> "layout",
     bindings |-> << [binding |-> 0, resource |-> "TextureView", texture |-> diffuse_texture],
                     [binding |-> 1, resource |-> "Sampler",     texture |-> diffuse_texture],
                     [binding |-> 2, resource |-> "TextureView", texture |-> normal_texture],
                     [binding |-> 3, resource |-> "Sampler",     texture |-> normal_texture] >>]

(* Lines 116-121 *)
Material(mat, diffuse_texture, normal_texture) ==
    [name |-> mat.name,
     diffuse_texture |-> diffuse_texture,
     normal_texture |-> normal_texture,
     bind_group |-> CreateBindGroup(diffuse_texture, normal_texture)]

(* Variant of PushCmds that inserts at the front.                          *)
PushCmds_front(buffers, cmds) == <<cmds>> \o buffers

(* Lines 80 and 91: command_buffers.push(cmds)                             *)
PushCmds(buffers, cmds) == Append(buffers, cmds)

(* Lines 77-122: one iteration of the material loop.                       *)
LoadMaterial ==
    /\ pc = "loading"
    /\ mi <= Len(obj_materials)
    /\ \E dOk \in BOOLEAN, nOk \in BOOLEAN :
         LET mat == obj_materials[mi]
             d   == TextureLoad(PathJoin(containing_folder, mat.diffuse_texture), dOk)
             np  == NormalPath(mat)
             n   == TextureLoad(PathJoin(containing_folder, np.val), nOk)
         IN  IF ~d.ok
             THEN Returned(Err("TextureLoadError")) /\ UNCHANGED mi
             ELSE IF ~np.some
             THEN Returned(Panic("key not found")) /\ UNCHANGED mi
             ELSE IF ~n.ok
             THEN Returned(Err("TextureLoadError")) /\ UNCHANGED mi
             ELSE /\ command_buffers' = PushCmds(PushCmds(command_buffers, d.cmds), n.cmds)
                  /\ materials' = Append(materials, Material(mat, d.texture, n.texture))
                  /\ mi' = mi + 1
                  /\ UNCHANGED <<pc, ret, meshes>>
    /\ UNCHANGED <<path, obj_models, obj_materials, containing_folder, gi,
                   pass, draws, drawPanic, lastCall>>

(* Lines 128-143: vertex i of a mesh record (0-based i).                   *)
ModelVertexAt(m, i) ==
    [position   |-> << At(m.positions, i * 3), At(m.positions, i * 3 + 1),
                       At(m.positions, i * 3 + 2) >>,
     tex_coords |-> << At(m.texcoords, i * 2), At(m.texcoords, i * 2 + 1) >>,
     normal     |-> << At(m.normals, i * 3), At(m.normals, i * 3 + 1),
                       At(m.normals, i * 3 + 2) >>]

(* Line 127: 0..positions.len() / 3                                        *)
VertexCount(m) == Len(m.positions) \div 3

(* A slice index of lines 130-141 is out of bounds for some i: a panic.    *)
VertexPanics(m) ==
    \E i \in 0..(VertexCount(m) - 1) :
        \/ ~InBounds(m.positions, i * 3 + 2)
        \/ ~InBounds(m.texcoords, i * 2 + 1)
        \/ ~InBounds(m.normals, i * 3 + 2)

(* Lines 126-144 *)
Vertices(m) == [k \in 1..VertexCount(m) |-> ModelVertexAt(m, k - 1)]

(* Lines 146-152: create_buffer_mapped(count, usage).fill_from_slice(..).  *)
(* The contents of an index buffer are not used by any operation and are   *)
(* left out; its element count is kept.                                    *)
CreateBuffer(count, usage, data) == [usage |-> usage, count |-> count, data |-> data]

(* Line 159: material_id.unwrap_or(0)                                      *)
UnwrapOr(opt, default) == IF opt.some THEN opt.val ELSE default

(* Lines 154-160 *)
Mesh(m) ==
    [name |-> m.name,
     vertex_buffer |-> CreateBuffer(Usize(0, Len(Vertices(m))), "VERTEX", Vertices(m)),
     index_buffer  |-> CreateBuffer(m.indices_len, "INDEX", <<>>),
     num_elements  |-> AsU32(m.indices_len),
     material      |-> UnwrapOr(m.material_id, 0)]

(* Lines 125-161: one iteration of the mesh loop.                          *)
LoadMesh ==
    /\ pc = "loading"
    /\ mi > Len(obj_materials)
    /\ gi <= Len(obj_models)
    /\ LET m == obj_models[gi]
       IN  IF VertexPanics(m)
           THEN Returned(Panic("index out of bounds")) /\ UNCHANGED gi
           ELSE /\ meshes' = Append(meshes, Mesh(m))
                /\ gi' = gi + 1
                /\ UNCHANGED <<pc, ret, command_buffers, materials>>
    /\ UNCHANGED <<path, obj_models, obj_materials, containing_folder, mi,
                   pass, draws, drawPanic, lastCall>>

(* Line 163 *)
LoadReturn ==
    /\ pc = "loading"
    /\ mi > Len(obj_materials)
    /\ gi > Len(obj_models)
    /\ Returned(Ok([meshes |-> meshes, materials |-> materials], command_buffers))
    /\ UNCHANGED <<path, obj_models, obj_materials, containing_folder, mi, gi,
                   pass, draws, drawPanic, lastCall>>

-----------------------------------------------------------------------------
(* Commands recorded on a wgpu::RenderPass.                                *)

Range(start, end) == [start |-> start, end |-> end]

SetVertexBuffers(start_slot, buffer, offset) ==
    [op |-> "set_vertex_buffers", start_slot |-> start_slot,
     vbuffer |-> buffer, voffset |-> offset]

SetIndexBuffer(buffer, offset) ==
    [op |-> "set_index_buffer", ibuffer |-> buffer, ioffset |-> offset]

SetBindGroup(index, bind_group) ==
    [op |-> "set_bind_group", index |-> index, bind_group |-> bind_group,
     offsets |-> <<>>]

DrawIndexed(indices, base_vertex, instances) ==
    [op |-> "draw_indexed", indices |-> indices, base_vertex |-> base_vertex,
     instances |-> instances]

(* Variant of draw_mesh_instanced with the two bind-group slots exchanged. *)
draw_mesh_instanced_slots_swapped(rp, mesh, material, instances, uniforms) ==
    rp \o << SetVertexBuffers(0, mesh.vertex_buffer, 0),
             SetIndexBuffer(mesh.index_buffer, 0),
             SetBindGroup(1, material.bind_group),
             SetBindGroup(0, uniforms),
             DrawIndexed(Range(0, mesh.num_elements), 0, instances) >>

(* Lines 180-186 *)
draw_mesh_instanced(rp, mesh, material, instances, uniforms) ==
    rp \o << SetVertexBuffers(0, mesh.vertex_buffer, 0),
             SetIndexBuffer(mesh.index_buffer, 0),
             SetBindGroup(0, material.bind_group),
             SetBindGroup(1, uniforms),
             DrawIndexed(Range(0, mesh.num_elements), 0, instances) >>

(* Variant of draw_mesh passing the empty instance range 0..0.            *)
draw_mesh_empty_range(rp, mesh, material, uniforms) ==
    draw_mesh_instanced(rp, mesh, material, Range(0, 0), uniforms)

(* Lines 176-178 *)
draw_mesh(rp, mesh, material, uniforms) ==
    draw_mesh_instanced(rp, mesh, material, Range(0, 1), uniforms)

(* Lines 193-196: the loop from mesh k on; model.materials[mesh.material]  *)
(* panics when the index is out of range, keeping what was recorded.       *)
RECURSIVE DrawMeshesFrom(_, _, _, _, _)
DrawMeshesFrom(rp, model, k, instances, uniforms) ==
    IF k > Len(model.meshes)
    THEN [pass |-> rp, panicked |-> FALSE]
    ELSE LET mesh == model.meshes[k]
         IN  IF ~InBounds(model.materials, mesh.material)
             THEN [pass |-> rp, panicked |-> TRUE]
             ELSE DrawMeshesFrom(
                      draw_mesh_instanced(rp, mesh, At(model.materials, mesh.material),
                                          instances, uniforms),
                      model, k + 1, instances, uniforms)

(* Lines 192-197 *)
draw_model_instanced(rp, model, instances, uniforms) ==
    DrawMeshesFrom(rp, model, 1, instances, uniforms)

(* Lines 188-190 *)
draw_model(rp, model, uniforms) ==
    draw_model_instanced(rp, model, Range(0, 1), uniforms)

(* What a caller passes to the draw operations.                            *)
InstanceRanges == { Range(0, 1), Range(1, 3) }

UniformGroups == { [layout |-> "uniforms", bindings |-> <<>>] }

CanDraw ==
    /\ pc = "returned"
    /\ ret.kind = "Ok"
    /\ ~drawPanic
    /\ draws < MaxDraws

Call(op, k, j, instances, uniforms) ==
    [op |-> op, mesh |-> k, material |-> j, instances |-> instances,
     uniforms |-> uniforms]

DrawMesh ==
    /\ CanDraw
    /\ \E k \in 1..Len(ret.model.meshes), j \in 1..Len(ret.model.materials),
          u \in UniformGroups :
         /\ pass' = draw_mesh(pass, ret.model.meshes[k], ret.model.materials[j], u)
         /\ lastCall' = Call("draw_mesh", k, j, Range(0, 1), u)
    /\ draws' = draws + 1
    /\ UNCHANGED <<loadVars, drawPanic>>

DrawMeshInstanced ==
    /\ CanDraw
    /\ \E k \in 1..Len(ret.model.meshes), j \in 1..Len(ret.model.materials),
          r \in InstanceRanges, u \in UniformGroups :
         /\ pass' = draw_mesh_instanced(pass, ret.model.meshes[k],
                                        ret.model.materials[j], r, u)
         /\ lastCall' = Call("draw_mesh_instanced", k, j, r, u)
    /\ draws' = draws + 1
    /\ UNCHANGED <<loadVars, drawPanic>>

DrawModel ==
    /\ CanDraw
    /\ \E u \in UniformGroups :
         LET res == draw_model(pass, ret.model, u)
         IN  /\ pass' = res.pass
             /\ drawPanic' = res.panicked
             /\ lastCall' = Call("draw_model", 0, 0, Range(0, 1), u)
    /\ draws' = draws + 1
    /\ UNCHANGED loadVars

DrawModelInstanced ==
    /\ CanDraw
    /\ \E r \in InstanceRanges, u \in UniformGroups :
         LET res == draw_model_instanced(pass, ret.model, r, u)
         IN  /\ pass' = res.pass
             /\ drawPanic' = res.panicked
             /\ lastCall' = Call("draw_model_instanced", 0, 0, r, u)
    /\ draws' = draws + 1
    /\ UNCHANGED loadVars

Next ==
    \/ LoadStart
    \/ LoadMaterial
    \/ LoadMesh
    \/ LoadReturn
    \/ DrawMesh
    \/ DrawMeshInstanced
    \/ DrawModel
    \/ DrawModelInstanced


Spec == Init /\ [][Next]_vars

-----------------------------------------------------------------------------
(* Properties *)

LoadedModel ==
    IF ret.kind = "Ok"
    THEN ret.model
    ELSE [meshes |-> meshes, materials |-> materials]

LoadedCmds == IF ret.kind = "Ok" THEN ret.cmds ELSE command_buffers

HasNoNormalMap(mat) ==
    mat.normal_texture = <<>> /\ "map_Bump" \notin DOMAIN mat.unknown_param

(* C1: after a successful load, every mesh's material index is below the   *)
(* number of materials of the model.                                       *)
C1_MaterialIndexInRange ==
    ret.kind = "Ok" =>
        \A k \in 1..Len(ret.model.meshes) :
            ret.model.meshes[k].material < Len(ret.model.materials)

(* C2: when the load reaches the normal-map resolution of a material with  *)
(* an empty normal-map field and no "map_Bump" entry, it returns the error *)
(* MissingNormalMapError and no model.                                     *)
C2_MissingNormalMapError ==
    ( /\ pc = "returned"
      /\ mi \in 1..Len(obj_materials)
      /\ HasNoNormalMap(obj_materials[mi])
      /\ ret # Err("TextureLoadError") )
    => ret = Err("MissingNormalMapError")

(* C3: a load call ends either with a model holding one material per       *)
(* material record and one mesh per mesh record, or with a typed error,    *)
(* no model and no upload commands; a nonexistent path gives ParseError.   *)
C3_AllOrNothing ==
    pc = "returned" =>
        /\ \/ /\ ret.kind = "Ok"
              /\ Len(ret.model.materials) = Len(obj_materials)
              /\ Len(ret.model.meshes) = Len(obj_models)
           \/ /\ ret.kind = "Err"
              /\ ret.error \in {"ParseError", "MissingNormalMapError", "TextureLoadError"}
              /\ ret.model = NoModel
              /\ ret.cmds = <<>>
        /\ path \notin ExistingAssets => ret = Err("ParseError")

(* The five commands of mesh k of a model, written out.                    *)
ExpectedMeshCmd(model, k, r, instances, uniforms) ==
    LET mesh == model.meshes[k]
    IN  CASE r = 1 -> SetVertexBuffers(0, mesh.vertex_buffer, 0)
          [] r = 2 -> SetIndexBuffer(mesh.index_buffer, 0)
          [] r = 3 -> SetBindGroup(0, model.materials[mesh.material + 1].bind_group)
          [] r = 4 -> SetBindGroup(1, uniforms)
          [] OTHER -> DrawIndexed(Range(0, mesh.num_elements), 0, instances)

ExpectedModelCmds(model, instances, uniforms) ==
    [i \in 1..(5 * Len(model.meshes)) |->
        ExpectedMeshCmd(model, ((i - 1) \div 5) + 1, ((i - 1) % 5) + 1,
                        instances, uniforms)]

(* C4: draw_model and draw_model_instanced on a model with n meshes record *)
(* n indexed draws, the k-th for meshes[k], each preceded by the bindings  *)
(* of that mesh and of its material, none skipped.                         *)
C4_DrawModelAllMeshes ==
    [][ (lastCall'.op \in {"draw_model", "draw_model_instanced"} /\ draws' = draws + 1)
        => /\ ~drawPanic'
           /\ pass' = pass \o ExpectedModelCmds(ret.model, lastCall'.instances,
                                                lastCall'.uniforms) ]_vars

(* C5: a draw_mesh_instanced call appends, after everything recorded       *)
(* before, the four bindings (vertex buffer at slot 0, index buffer,       *)
(* material group at slot 0, uniforms at slot 1) and then one draw_indexed *)
(* over [0, num_elements) with base vertex 0 and the caller's instances.   *)
C5_BindBeforeDraw ==
    [][ (lastCall'.op = "draw_mesh_instanced" /\ draws' = draws + 1)
        => LET new      == SubSeq(pass', Len(pass) + 1, Len(pass'))
               mesh     == ret.model.meshes[lastCall'.mesh]
               material == ret.model.materials[lastCall'.material]
               bindings == { SetVertexBuffers(0, mesh.vertex_buffer, 0),
                             SetIndexBuffer(mesh.index_buffer, 0),
                             SetBindGroup(0, material.bind_group),
                             SetBindGroup(1, lastCall'.uniforms) }
           IN  /\ Len(pass') >= Len(pass)
               /\ SubSeq(pass', 1, Len(pass)) = pass
               /\ Cardinality({ i \in 1..Len(new) : new[i].op = "draw_indexed" }) = 1
               /\ \E i \in 1..Len(new) :
                    /\ new[i] = DrawIndexed(Range(0, mesh.num_elements), 0,
                                            lastCall'.instances)
                    /\ \A b \in bindings : \E j \in 1..(i - 1) : new[j] = b
                    /\ \A j \in 1..(i - 1) : new[j] \in bindings ]_vars

C5_Witness ==
    /\ lastCall.op = "draw_mesh_instanced"
    /\ lastCall.instances = Range(1, 3)
    /\ draws = 2
    /\ Len(pass) = 10
    /\ pass[10].op = "draw_indexed"
    /\ pass[5].op = "draw_indexed"

(* C6: draw_mesh records what draw_mesh_instanced records for the range    *)
(* 0..1, and draw_model what draw_model_instanced records for 0..1.        *)
C6_DefaultInstanceRange ==
    [][ /\ (lastCall'.op = "draw_mesh" /\ draws' = draws + 1)
           => pass' = draw_mesh_instanced(pass, ret.model.meshes[lastCall'.mesh],
                                          ret.model.materials[lastCall'.material],
                                          Range(0, 1), lastCall'.uniforms)
        /\ (lastCall'.op = "draw_model" /\ draws' = draws + 1)
           => LET res == draw_model_instanced(pass, ret.model, Range(0, 1),
                                              lastCall'.uniforms)
              IN  pass' = res.pass /\ drawPanic' = res.panicked ]_vars

C6_Witness ==
    /\ lastCall.op \in {"draw_mesh", "draw_model"}
    /\ draws = 2
    /\ Len(ret.model.meshes) = 2
    /\ Len(pass) >= 10
    /\ pass[Len(pass)].instances = Range(0, 1)

(* C7: for every loaded mesh, num_elements equals the number of indices    *)
(* uploaded to its index buffer, whatever the length of the index array.   *)
C7_NumElementsIsIndexCount ==
    ret.kind = "Ok" =>
        \A k \in 1..Len(ret.model.meshes) :
            U32ToUsize(ret.model.meshes[k].num_elements)
                = ret.model.meshes[k].index_buffer.count

(* C8: the normal map of a material is loaded from the parent directory of *)
(* the asset joined with the dedicated field when it is non-empty (the     *)
(* "map_Bump" entry is then ignored), else with the "map_Bump" entry; the  *)
(* diffuse path is joined the same way; the missing-key failure happens    *)
(* only for a record that has neither.                                     *)
C8_NormalPathFallback ==
    /\ \A j \in 1..Len(LoadedModel.materials) :
         LET mat == obj_materials[j]
             m   == LoadedModel.materials[j]
         IN  /\ m.diffuse_texture.source
                  = PathJoin(Parent(path).val, mat.diffuse_texture)
             /\ \/ /\ mat.normal_texture # <<>>
                   /\ m.normal_texture.source
                        = PathJoin(Parent(path).val, mat.normal_texture)
                \/ /\ mat.normal_texture = <<>>
                   /\ "map_Bump" \in DOMAIN mat.unknown_param
                   /\ m.normal_texture.source
                        = PathJoin(Parent(path).val, mat.unknown_param["map_Bump"])
    /\ ret = Panic("key not found")
         => mi \in 1..Len(obj_materials) /\ HasNoNormalMap(obj_materials[mi])

C8_Witness ==
    /\ ret.kind = "Ok"
    /\ Len(ret.model.materials) = 2
    /\ \E j \in 1..2 :
         /\ obj_materials[j].normal_texture = <<>>
         /\ "map_Bump" \in DOMAIN obj_materials[j].unknown_param
    /\ \E j \in 1..2 :
         /\ obj_materials[j].normal_texture # <<>>
         /\ IsAbsolute(obj_materials[j].normal_texture)
         /\ "map_Bump" \in DOMAIN obj_materials[j].unknown_param

HasShortArrays(m) ==
    \/ Len(m.texcoords) < 2 * (Len(m.positions) \div 3)
    \/ Len(m.normals) < 3 * (Len(m.positions) \div 3)

ExpectedVertices(m) ==
    [v \in 1..(Len(m.positions) \div 3) |->
        [position   |-> << m.positions[3 * v - 2], m.positions[3 * v - 1],
                           m.positions[3 * v] >>,
         tex_coords |-> << m.texcoords[2 * v - 1], m.texcoords[2 * v] >>,
         normal     |-> << m.normals[3 * v - 2], m.normals[3 * v - 1],
                           m.normals[3 * v] >>]]

(* C9: a mesh record with too few texcoords or normals is rejected with    *)
(* ParseError, and every loaded mesh has floor(positions.len()/3) vertices *)
(* interleaved from positions, texcoords and normals.                      *)
C9_InterleaveOrParseError ==
    /\ ( /\ pc = "returned"
         /\ mi > Len(obj_materials)
         /\ gi \in 1..Len(obj_models)
         /\ HasShortArrays(obj_models[gi]) )
       => ret = Err("ParseError")
    /\ \A k \in 1..Len(LoadedModel.meshes) :
         LoadedModel.meshes[k].vertex_buffer.data = ExpectedVertices(obj_models[k])

(* C10: once the material loop is over, and in the returned result, the    *)
(* command list has two entries per material record, the diffuse upload    *)
(* then the normal upload of material j at 2j-1 and 2j, and material j     *)
(* comes from record j.                                                    *)
C10_TwoCommandsPerMaterial ==
    ((pc = "loading" /\ mi > Len(obj_materials)) \/ ret.kind = "Ok") =>
        /\ Len(LoadedCmds) = 2 * Len(obj_materials)
        /\ Len(LoadedModel.materials) = Len(obj_materials)
        /\ \A j \in 1..Len(LoadedModel.materials) :
             LET m == LoadedModel.materials[j]
             IN  /\ Len(LoadedCmds) >= 2 * j
                 /\ LoadedCmds[2 * j - 1] = [upload |-> m.diffuse_texture.source]
                 /\ LoadedCmds[2 * j] = [upload |-> m.normal_texture.source]
                 /\ m.name = obj_materials[j].name
                 /\ m.diffuse_texture.source
                      = PathJoin(containing_folder, obj_materials[j].diffuse_texture)

C10_Witness ==
    /\ ret.kind = "Ok"
    /\ Len(obj_materials) = 2
    /\ obj_materials[1] # obj_materials[2]
    /\ Len(ret.model.meshes) >= 1
    /\ Len(ret.cmds) = 4

====
